---- MODULE Spec2Model ----
(***************************************************************************)
(* Model of src/hot.dev.js of react-hot-loader: the hot() registration     *)
(* against the host's module object (module.hot, its accept and status     *)
(* handlers), the failback (deadline) timer, the updateInstances protocol  *)
(* with the require queue, the render queue, the deep update and the       *)
(* tail-update polling, and the mount/unmount bookkeeping of               *)
(* ExportedComponent.                                                      *)
(***************************************************************************)
EXTENDS Integers, Sequences, FiniteSets, TLC

\* ------------------------------------------------------------------ bounds
MaxRegs     == 2   \* hot() calls
MaxInst     == 2   \* ExportedComponent instances ever constructed
MaxTriggers == 2   \* update triggers that pass the error check
MaxPolls    == 6   \* checkTailUpdates timer callbacks that run (TailSpec)
MaxUpdates  == 1   \* update triggers that pass the error check (UpdateSpec)
MaxTailRuns == 2   \* checkTailUpdates timer callbacks that run (UpdateSpec, LiveSpec)

\* ------------------------------------------------------- program constants
RunLimit == 5      \* hot.dev.js:75  ++runLimit < 5

ModuleIds      == {"A", "B"}
PossibleErrors == {"undefined", "Error", "string"}
NoErrors       == {e \in PossibleErrors : ~(e = "Error")}
InstIds        == 1 .. MaxInst

VARIABLES
  regs,            \* one record per hot() call (closure state of hot)
  inst,            \* lifecycle of every ExportedComponent instance
  instances,       \* hotModule(id).instances, per module id
  generation,      \* global/generation counter
  requireQueue,    \* tasks pending in runInRequireQueue
  settled,         \* reload promises settled, .then(deepUpdate) not yet run
  renderQueue,     \* tasks pending in runInRenderQueue
  timers,          \* pending checkTailUpdates setTimeout callbacks
  cycles,          \* one record per update trigger that passed the check
  preGen,          \* the Generation counter when the latest cycle was triggered
  aborted,         \* some updateInstances call returned at line 50
  lastRender,      \* the forceUpdate calls of the latest deep-update task
  trackTailUpdates,\* configuration.trackTailUpdates
  opened,          \* global/modules: the module ids flagged as open
  misuseLog,       \* logger.error calls made by componentWillUnmount
  status,          \* sourceModule.hot.status() of the host
  exceptions,      \* errorReporter holds an exception not yet cleared
  thrown,          \* some hot() call threw to its caller
  preInstances,    \* the instances recorded for the latest cycle's module
                   \* when the cycle was triggered
  enqueueOrder,    \* the deep-update tasks not yet run, in the order of the
                   \* deepUpdate calls that handed them to runInRenderQueue
  staleCalls       \* the forceUpdate calls of the latest deep-update task
                   \* whose target had unmounted before the call

vars == <<regs, inst, instances, generation, requireQueue, settled,
          renderQueue, timers, cycles, preGen, aborted, lastRender,
          trackTailUpdates, opened, misuseLog, status, exceptions, thrown,
          preInstances, enqueueOrder, staleCalls>>

\* ------------------------------------------------------------------ helpers
RECURSIVE SumAttempts(_)
SumAttempts(s) == IF s = <<>> THEN 0 ELSE Head(s).attempts + SumAttempts(Tail(s))

Count(s, x) == Cardinality({k \in 1 .. Len(s) : s[k] = x})

TotalAttempts == SumAttempts(cycles)

\* utils/runQueue: a queue keeps its tasks in the order they were added and
\* runs the first one added next
enqueue(queue, task) == Append(queue, task)
nextTask(queue)      == Head(queue)
dequeue(queue)       == Tail(queue)

\* global/generation
enterHotUpdate(g)   == g + 1
getHotGeneration(g) == g

\* possibleError && possibleError instanceof Error
isGenuineError(possibleError) == possibleError = "Error"

\* ------------------------------------------------------------------- Init
Init ==
  /\ regs = <<>>
  /\ inst = [i \in InstIds |-> [mod |-> "none", mounted |-> FALSE, unmounts |-> "none"]]
  /\ instances = [m \in ModuleIds |-> <<>>]
  /\ generation = 0
  /\ requireQueue = <<>>
  /\ settled = {}
  /\ renderQueue = <<>>
  /\ timers = {}
  /\ cycles = <<>>
  /\ preGen = 0
  /\ aborted = FALSE
  /\ lastRender = <<>>
  /\ trackTailUpdates \in BOOLEAN
  /\ opened = {}
  /\ misuseLog = 0
  /\ status = "idle"
  /\ exceptions = FALSE
  /\ thrown = FALSE
  /\ preInstances = <<>>
  /\ enqueueOrder = <<>>
  /\ staleCalls = {}

\* ----------------------------------------------------- the host's modules
\* A module object as hot() and makeHotExport read it: "" is an absent id
\* property, given = FALSE a call without an argument.
module(id, i, filename, hmr, ash) ==
  [given |-> TRUE, id |-> id, i |-> i, filename |-> filename,
   hot |-> hmr, addStatusHandler |-> ash]

NoArgument ==
  [given |-> FALSE, id |-> "", i |-> "", filename |-> "",
   hot |-> FALSE, addStatusHandler |-> FALSE]

\* module.hot with addStatusHandler (the "Webpack way")
WebpackModules ==
  {module(m, m, "", TRUE, TRUE) : m \in ModuleIds} \cup {module("", m, "", TRUE, TRUE) : m \in ModuleIds}
\* module.hot without addStatusHandler (Parcel)
ParcelModules  == {module(m, "", "", TRUE, FALSE) : m \in ModuleIds}
\* no module.hot
NoHmrModules   == {module("", "", m, FALSE, FALSE) : m \in ModuleIds}
\* no argument, or none of id, i, filename
InvalidModules == {NoArgument, module("", "", "", TRUE, TRUE)}

\* sourceModule.id || sourceModule.i || sourceModule.filename
moduleId(sourceModule) ==
  IF sourceModule.id # "" THEN sourceModule.id
  ELSE IF sourceModule.i # "" THEN sourceModule.i
  ELSE sourceModule.filename

\* the values of the host's status: check => prepare => ready => dispose =>
\* apply => idle
Statuses == {"idle", "check", "prepare", "ready", "dispose", "apply"}

\* errorReporter
clearExceptions == FALSE
logException    == TRUE

\* global/modules
isModuleOpened(m) == m \in opened

\* ----------------------------------------------------------- registration
\* setTimeout(() => {...logException...}, 100), and the closure state of the
\* function hot() returns
chargeFailbackTimer(id) ==
  [mod |-> id, timer |-> "pending", firstHotRegistered |-> FALSE, again |-> FALSE,
   early |-> FALSE, reports |-> <<>>, registerCalls |-> 0]

\* mutant: clearTimeout has no effect
clearFailbackTimerNoop(timer) == timer

\* clearTimeout(timerId): suppresses a pending firing, otherwise nothing
clearFailbackTimer(timer) == IF timer = "pending" THEN "cleared" ELSE timer

\* mutant: the accept handler is registered whether or not module.hot exists
makeHotExportAlways(sourceModule, st) ==
  [hmr           |-> sourceModule.hot,
   ash           |-> sourceModule.addStatusHandler,
   accept        |-> TRUE,
   statusHandler |-> sourceModule.addStatusHandler /\ st = "idle",
   warnings      |-> IF sourceModule.hot THEN 0 ELSE 1]

\* mutant: the status handler is added whatever status() returns
makeHotExportAnyStatus(sourceModule, st) ==
  [hmr           |-> sourceModule.hot,
   ash           |-> sourceModule.addStatusHandler,
   accept        |-> sourceModule.hot,
   statusHandler |-> sourceModule.hot /\ sourceModule.addStatusHandler,
   warnings      |-> IF sourceModule.hot THEN 0 ELSE 1]

\* makeHotExport: what the closures keep of sourceModule, the handlers
\* registered with the host and the warnings logged; st is what
\* sourceModule.hot.status() returns
makeHotExport(sourceModule, st) ==
  [hmr           |-> sourceModule.hot,
   ash           |-> sourceModule.addStatusHandler,
   accept        |-> sourceModule.hot,
   statusHandler |-> sourceModule.hot /\ sourceModule.addStatusHandler /\ st = "idle",
   warnings      |-> IF sourceModule.hot THEN 0 ELSE 1]

\* mutant: the module id is checked only after makeHotExport and
\* chargeFailbackTimer have run
hotLateCheck(sourceModule) ==
  IF ~sourceModule.given
  THEN /\ thrown' = TRUE
       /\ UNCHANGED <<regs, inst, instances, generation, requireQueue, settled,
                      renderQueue, timers, cycles, aborted, lastRender, preGen,
                      trackTailUpdates, opened, misuseLog, status, exceptions,
                      preInstances, enqueueOrder, staleCalls>>
  ELSE /\ Len(regs) < MaxRegs
       /\ regs' = Append(regs, makeHotExport(sourceModule, status)
                                 @@ chargeFailbackTimer(moduleId(sourceModule)))
       /\ exceptions' = clearExceptions
       /\ thrown' = (thrown \/ moduleId(sourceModule) = "")
       /\ UNCHANGED <<inst, instances, generation, requireQueue, settled,
                      renderQueue, timers, cycles, aborted, lastRender, preGen,
                      trackTailUpdates, opened, misuseLog, status,
                      preInstances, enqueueOrder, staleCalls>>

\* hot(sourceModule)
hot(sourceModule) ==
  IF ~sourceModule.given \/ moduleId(sourceModule) = ""
  THEN /\ thrown' = TRUE
       /\ UNCHANGED <<regs, inst, instances, generation, requireQueue, settled,
                      renderQueue, timers, cycles, aborted, lastRender, preGen,
                      trackTailUpdates, opened, misuseLog, status, exceptions,
                      preInstances, enqueueOrder, staleCalls>>
  ELSE /\ Len(regs) < MaxRegs
       /\ regs' = Append(regs, makeHotExport(sourceModule, status)
                                 @@ chargeFailbackTimer(moduleId(sourceModule)))
       /\ exceptions' = clearExceptions
       /\ UNCHANGED <<inst, instances, generation, requireQueue, settled,
                      renderQueue, timers, cycles, aborted, lastRender, preGen,
                      trackTailUpdates, opened, misuseLog, status, thrown,
                      preInstances, enqueueOrder, staleCalls>>

\* mutant: the callbacks share one id variable, which holds the id of the
\* latest hot() call
failbackReportShared(r) == [id |-> regs[Len(regs)].mod]

\* the callback of chargeFailbackTimer runs
failbackReport(r) == [id |-> regs[r].mod]

FailbackTimerFires(r) ==
  /\ regs[r].timer = "pending"
  /\ regs' = [regs EXCEPT ![r].timer = "fired",
                          ![r].reports = Append(@, failbackReport(r))]
  /\ exceptions' = logException
  /\ UNCHANGED <<inst, instances, generation, requireQueue, settled,
                 renderQueue, timers, cycles, aborted, lastRender, preGen, trackTailUpdates,
                 opened, misuseLog, status, thrown, preInstances,
                 enqueueOrder, staleCalls>>

\* mutant: reactHotLoader.register is called on every invocation
ExportWrapperAlways(r) ==
  /\ regs' = [regs EXCEPT ![r].timer = clearFailbackTimer(@),
                          ![r].firstHotRegistered = TRUE,
                          ![r].again = regs[r].firstHotRegistered,
                          ![r].early = @ \/ (~regs[r].firstHotRegistered /\ regs[r].timer = "pending"),
                          ![r].registerCalls = @ + 1]
  /\ UNCHANGED <<inst, instances, generation, requireQueue, settled,
                 renderQueue, timers, cycles, aborted, lastRender, preGen, trackTailUpdates,
                 opened, misuseLog, status, exceptions, thrown, preInstances,
                 enqueueOrder, staleCalls>>

\* the function returned by hot() is invoked
ExportWrapper(r) ==
  /\ regs' = [regs EXCEPT ![r].timer = clearFailbackTimer(@),
                          ![r].firstHotRegistered = TRUE,
                          ![r].again = regs[r].firstHotRegistered,
                          ![r].early = @ \/ (~regs[r].firstHotRegistered /\ regs[r].timer = "pending"),
                          ![r].registerCalls = IF regs[r].firstHotRegistered THEN @ ELSE @ + 1]
  /\ UNCHANGED <<inst, instances, generation, requireQueue, settled,
                 renderQueue, timers, cycles, aborted, lastRender, preGen, trackTailUpdates,
                 opened, misuseLog, status, exceptions, thrown, preInstances,
                 enqueueOrder, staleCalls>>

\* ------------------------------------------------------ ExportedComponent
NextInst == CHOOSE i \in InstIds : inst[i].mod = "none" /\ \A j \in InstIds : inst[j].mod = "none" => i <= j

\* mutant: the instance is recorded twice
pushTwice(list, this) == Append(Append(list, this), this)

\* module.instances.push(this)
push(list, this) == Append(list, this)

componentDidMount(r) ==
  /\ regs[r].firstHotRegistered
  /\ \E i \in InstIds : inst[i].mod = "none"
  /\ LET i == NextInst
         m == regs[r].mod
     IN /\ inst' = [inst EXCEPT ![i] = [mod |-> m, mounted |-> TRUE, unmounts |-> "none"]]
        /\ instances' = [instances EXCEPT ![m] = push(@, i)]
  /\ UNCHANGED <<regs, generation, requireQueue, settled,
                 renderQueue, timers, cycles, aborted, lastRender, preGen, trackTailUpdates,
                 opened, misuseLog, status, exceptions, thrown, preInstances,
                 enqueueOrder, staleCalls>>

\* mutant: the filter keeps every instance
filterNothing(list, this) == list

\* module.instances.filter(a => a !== this)
filter(list, this) == SelectSeq(list, LAMBDA a : a # this)

\* mutant: componentWillUnmount returns after logging the misuse
componentWillUnmountReturns(i) ==
  /\ inst[i].mod # "none"
  /\ inst' = [inst EXCEPT ![i].mounted = FALSE,
                          ![i].unmounts = IF @ = "none" THEN "once" ELSE "again"]
  /\ misuseLog' = misuseLog + (IF isModuleOpened(inst[i].mod) THEN 1 ELSE 0)
  /\ instances' = IF isModuleOpened(inst[i].mod)
                  THEN instances
                  ELSE [instances EXCEPT ![inst[i].mod] = filter(@, i)]
  /\ UNCHANGED <<regs, generation, requireQueue, settled,
                 renderQueue, timers, cycles, aborted, lastRender, preGen, trackTailUpdates,
                 opened, status, exceptions, thrown, preInstances,
                 enqueueOrder, staleCalls>>

componentWillUnmount(i) ==
  /\ inst[i].mod # "none"
  /\ inst' = [inst EXCEPT ![i].mounted = FALSE,
                          ![i].unmounts = IF @ = "none" THEN "once" ELSE "again"]
  /\ misuseLog' = misuseLog + (IF isModuleOpened(inst[i].mod) THEN 1 ELSE 0)
  /\ instances' = [instances EXCEPT ![inst[i].mod] = filter(@, i)]
  /\ UNCHANGED <<regs, generation, requireQueue, settled,
                 renderQueue, timers, cycles, aborted, lastRender, preGen, trackTailUpdates,
                 opened, status, exceptions, thrown, preInstances,
                 enqueueOrder, staleCalls>>

\* the host starts to process module m (global/modules flags it as open)
EnterModule(m) ==
  /\ m \notin opened
  /\ opened' = opened \cup {m}
  /\ UNCHANGED <<regs, inst, instances, generation, requireQueue, settled,
                 renderQueue, timers, cycles, aborted, lastRender, preGen, trackTailUpdates,
                 misuseLog, status, exceptions, thrown, preInstances,
                 enqueueOrder, staleCalls>>

\* the host is done with module m
LeaveModule(m) ==
  /\ m \in opened
  /\ opened' = opened \ {m}
  /\ UNCHANGED <<regs, inst, instances, generation, requireQueue, settled,
                 renderQueue, timers, cycles, aborted, lastRender, preGen, trackTailUpdates,
                 misuseLog, status, exceptions, thrown, preInstances,
                 enqueueOrder, staleCalls>>

\* --------------------------------------------------------- updateInstances
\* the closure of one updateInstances call that passed the error check
newCycle(r) ==
  [reg |-> r, mod |-> regs[r].mod, required |-> "pending", rendered |-> FALSE, attempts |-> 0]

\* mutant: the error branch logs but does not return
updateInstancesNoReturn(r, possibleError) ==
  /\ IF isGenuineError(possibleError)
     THEN aborted' = TRUE
     ELSE UNCHANGED aborted
  /\ cycles' = Append(cycles, newCycle(r))
  /\ preGen' = generation
  /\ preInstances' = instances[regs[r].mod]
  /\ requireQueue' = enqueue(requireQueue, Len(cycles) + 1)
  /\ UNCHANGED <<regs, inst, instances, generation, settled,
                 renderQueue, timers, lastRender, trackTailUpdates,
                 opened, misuseLog, status, exceptions, thrown,
                 enqueueOrder, staleCalls>>

\* mutant: deepUpdate is called right away instead of being chained on the
\* reload promise
updateInstancesEager(r, possibleError) ==
  IF isGenuineError(possibleError)
  THEN /\ aborted' = TRUE
       /\ UNCHANGED <<regs, inst, instances, generation, requireQueue, settled,
                      renderQueue, timers, cycles, lastRender, preGen, trackTailUpdates,
                      opened, misuseLog, status, exceptions, thrown, preInstances,
                      enqueueOrder, staleCalls>>
  ELSE /\ cycles' = Append(cycles, newCycle(r))
       /\ preGen' = generation
       /\ preInstances' = instances[regs[r].mod]
       /\ requireQueue' = enqueue(requireQueue, Len(cycles) + 1)
       /\ renderQueue' = enqueue(renderQueue, Len(cycles) + 1)
       /\ enqueueOrder' = Append(enqueueOrder, Len(cycles) + 1)
       /\ UNCHANGED <<regs, inst, instances, generation, settled,
                      timers, aborted, lastRender, trackTailUpdates,
                      opened, misuseLog, status, exceptions, thrown,
                      staleCalls>>

updateInstances(r, possibleError) ==
  IF isGenuineError(possibleError)
  THEN /\ aborted' = TRUE
       /\ UNCHANGED <<regs, inst, instances, generation, requireQueue, settled,
                      renderQueue, timers, cycles, lastRender, preGen, trackTailUpdates,
                      opened, misuseLog, status, exceptions, thrown, preInstances,
                      enqueueOrder, staleCalls>>
  ELSE /\ cycles' = Append(cycles, newCycle(r))
       /\ preGen' = generation
       /\ preInstances' = instances[regs[r].mod]
       /\ requireQueue' = enqueue(requireQueue, Len(cycles) + 1)
       /\ UNCHANGED <<regs, inst, instances, generation, settled,
                      renderQueue, timers, aborted, lastRender, trackTailUpdates,
                      opened, misuseLog, status, exceptions, thrown,
                      enqueueOrder, staleCalls>>

\* the registrations whose status handler the host calls, in the order the
\* handlers were added
StatusHandlers == SelectSeq([r \in 1 .. Len(regs) |-> r], LAMBDA r : regs[r].statusHandler)

\* mutant: the handler does not look at the status it is given
isApplyAny(st) == TRUE

\* status === 'apply'
isApply(st) == st = "apply"

\* the handlers that call clearExceptions() and updateInstances() when the
\* host's status becomes st
StatusRuns(st) == IF isApply(st) THEN StatusHandlers ELSE <<>>

\* the host's status changes to st and the host calls every status handler
\* with it
StatusChange(st) ==
  /\ st # status
  /\ status' = st
  /\ LET runs == StatusRuns(st)
         n    == Len(runs)
     IN /\ exceptions' = IF n > 0 THEN clearExceptions ELSE exceptions
        /\ cycles' = cycles \o [k \in 1 .. n |-> newCycle(runs[k])]
        /\ requireQueue' = requireQueue \o [k \in 1 .. n |-> Len(cycles) + k]
        /\ preGen' = IF n > 0 THEN generation ELSE preGen
        /\ preInstances' = IF n > 0 THEN instances[regs[runs[n]].mod] ELSE preInstances
  /\ UNCHANGED <<regs, inst, instances, generation, settled,
                 renderQueue, timers, aborted, lastRender, trackTailUpdates,
                 opened, misuseLog, thrown, enqueueOrder, staleCalls>>

\* mutant: the exception of requireIndirect is not caught, the promise
\* rejects and its then-callback never runs
RunRequireTaskRethrow(threw) ==
  /\ requireQueue # <<>>
  /\ LET t == nextTask(requireQueue)
     IN /\ requireQueue' = dequeue(requireQueue)
        /\ cycles' = [cycles EXCEPT ![t].required = IF threw THEN "threw" ELSE "ok"]
        /\ settled' = IF threw THEN settled ELSE settled \cup {t}
  /\ UNCHANGED <<regs, inst, instances, generation,
                 renderQueue, timers, aborted, lastRender, preGen, trackTailUpdates,
                 opened, misuseLog, status, exceptions, thrown, preInstances,
                 enqueueOrder, staleCalls>>

\* the task given to runInRequireQueue runs; requireIndirect may throw
RunRequireTask(threw) ==
  /\ requireQueue # <<>>
  /\ LET t == nextTask(requireQueue)
     IN /\ requireQueue' = dequeue(requireQueue)
        /\ cycles' = [cycles EXCEPT ![t].required = IF threw THEN "threw" ELSE "ok"]
        /\ settled' = settled \cup {t}
  /\ UNCHANGED <<regs, inst, instances, generation,
                 renderQueue, timers, aborted, lastRender, preGen, trackTailUpdates,
                 opened, misuseLog, status, exceptions, thrown, preInstances,
                 enqueueOrder, staleCalls>>

\* mutant: the task is put in front of the tasks that wait
deepUpdateFirst(t) == <<t>> \o renderQueue

\* deepUpdate(): runInRenderQueue(task)
deepUpdate(t) == enqueue(renderQueue, t)

\* .then(deepUpdate) of a settled reload promise
ThenDeepUpdate(t) ==
  /\ t \in settled
  /\ settled' = settled \ {t}
  /\ renderQueue' = deepUpdate(t)
  /\ enqueueOrder' = Append(enqueueOrder, t)
  /\ UNCHANGED <<regs, inst, instances, generation, requireQueue,
                 timers, cycles, aborted, lastRender, preGen, trackTailUpdates,
                 opened, misuseLog, status, exceptions, thrown, preInstances,
                 staleCalls>>

\* module.instances.forEach(inst => inst.forceUpdate()): forEach walks the
\* array module.instances held when it was called, so these are the
\* instances that get a forceUpdate call, in call order
forEach(list) == list

\* Without ReactDOM.unstable_batchedUpdates a forceUpdate call re-renders
\* synchronously, and the re-render may unmount other mounted instances:
\* by[v] = u says that the re-render forced on u unmounts v, by[v] = 0 that
\* nothing unmounts v during the task.
SyncUnmounts(list) ==
  {by \in [InstIds -> InstIds \cup {0}] :
     \A v \in InstIds :
       by[v] # 0 => /\ inst[v].mounted
                    /\ by[v] # v
                    /\ \E k \in 1 .. Len(list) : list[k] = by[v]}

\* the instances unmounted once forEach has walked the rest `list` of the
\* array, `gone` being those unmounted before; forceUpdate on an unmounted
\* instance renders nothing
RECURSIVE forEachGone(_, _, _)
forEachGone(list, gone, by) ==
  IF list = <<>> THEN gone
  ELSE LET this == Head(list)
           now  == IF this \in gone THEN gone
                   ELSE gone \cup {v \in InstIds : by[v] = this}
       IN forEachGone(Tail(list), now, by)

\* the instances forEach calls forceUpdate on after they had unmounted
RECURSIVE forEachStale(_, _, _)
forEachStale(list, gone, by) ==
  IF list = <<>> THEN {}
  ELSE LET this == Head(list)
           now  == IF this \in gone THEN gone
                   ELSE gone \cup {v \in InstIds : by[v] = this}
       IN (IF this \in gone THEN {this} ELSE {}) \cup forEachStale(Tail(list), now, by)

\* componentWillUnmount of every instance of `gone`: the filter of each
RECURSIVE filterAll(_, _)
filterAll(list, gone) ==
  IF gone = {} THEN list
  ELSE LET v == CHOOSE v \in gone : TRUE
       IN filterAll(filter(list, v), gone \ {v})

\* mutant: the task enters the hot update twice
RunRenderTaskTwice(by) ==
  /\ renderQueue # <<>>
  /\ LET t    == nextTask(renderQueue)
         gen  == getHotGeneration(enterHotUpdate(enterHotUpdate(generation)))
         list == instances[cycles[t].mod]
         gone == forEachGone(list, {}, by)
     IN /\ by \in SyncUnmounts(list)
        /\ renderQueue' = dequeue(renderQueue)
        /\ enqueueOrder' = SelectSeq(enqueueOrder, LAMBDA c : c # t)
        /\ generation' = enterHotUpdate(enterHotUpdate(generation))
        /\ lastRender' = forEach(list)
        /\ staleCalls' = forEachStale(list, {}, by)
        /\ inst' = [i \in InstIds |->
                      IF i \in gone
                      THEN [inst[i] EXCEPT !.mounted = FALSE, !.unmounts = "once"]
                      ELSE inst[i]]
        /\ instances' = [m \in ModuleIds |-> filterAll(instances[m], gone)]
        /\ misuseLog' = misuseLog + Cardinality({v \in gone : isModuleOpened(inst[v].mod)})
        /\ cycles' = [cycles EXCEPT ![t].rendered = TRUE]
        /\ timers' = IF trackTailUpdates
                     THEN timers \cup {[cycle |-> t, gen |-> gen, runLimit |-> 0]}
                     ELSE timers
  /\ UNCHANGED <<regs, requireQueue, settled, aborted, preGen, trackTailUpdates,
                 opened, status, exceptions, thrown, preInstances>>

\* mutant: the task walks the instances that were recorded when the update
\* was triggered
RunRenderTaskCaptured(by) ==
  /\ renderQueue # <<>>
  /\ LET t    == nextTask(renderQueue)
         gen  == getHotGeneration(enterHotUpdate(generation))
         list == preInstances
         gone == forEachGone(list, {}, by)
     IN /\ by \in SyncUnmounts(list)
        /\ renderQueue' = dequeue(renderQueue)
        /\ enqueueOrder' = SelectSeq(enqueueOrder, LAMBDA c : c # t)
        /\ generation' = enterHotUpdate(generation)
        /\ lastRender' = forEach(list)
        /\ staleCalls' = forEachStale(list, {}, by)
        /\ inst' = [i \in InstIds |->
                      IF i \in gone
                      THEN [inst[i] EXCEPT !.mounted = FALSE, !.unmounts = "once"]
                      ELSE inst[i]]
        /\ instances' = [m \in ModuleIds |-> filterAll(instances[m], gone)]
        /\ misuseLog' = misuseLog + Cardinality({v \in gone : isModuleOpened(inst[v].mod)})
        /\ cycles' = [cycles EXCEPT ![t].rendered = TRUE]
        /\ timers' = IF trackTailUpdates
                     THEN timers \cup {[cycle |-> t, gen |-> gen, runLimit |-> 0]}
                     ELSE timers
  /\ UNCHANGED <<regs, requireQueue, settled, aborted, preGen, trackTailUpdates,
                 opened, status, exceptions, thrown, preInstances>>

\* the task given to runInRenderQueue runs
RunRenderTask(by) ==
  /\ renderQueue # <<>>
  /\ LET t    == nextTask(renderQueue)
         gen  == getHotGeneration(enterHotUpdate(generation))
         list == instances[cycles[t].mod]
         gone == forEachGone(list, {}, by)
     IN /\ by \in SyncUnmounts(list)
        /\ renderQueue' = dequeue(renderQueue)
        /\ enqueueOrder' = SelectSeq(enqueueOrder, LAMBDA c : c # t)
        /\ generation' = enterHotUpdate(generation)
        /\ lastRender' = forEach(list)
        /\ staleCalls' = forEachStale(list, {}, by)
        /\ inst' = [i \in InstIds |->
                      IF i \in gone
                      THEN [inst[i] EXCEPT !.mounted = FALSE, !.unmounts = "once"]
                      ELSE inst[i]]
        /\ instances' = [m \in ModuleIds |-> filterAll(instances[m], gone)]
        /\ misuseLog' = misuseLog + Cardinality({v \in gone : isModuleOpened(inst[v].mod)})
        /\ cycles' = [cycles EXCEPT ![t].rendered = TRUE]
        /\ timers' = IF trackTailUpdates
                     THEN timers \cup {[cycle |-> t, gen |-> gen, runLimit |-> 0]}
                     ELSE timers
  /\ UNCHANGED <<regs, requireQueue, settled, aborted, preGen, trackTailUpdates,
                 opened, status, exceptions, thrown, preInstances>>

\* mutant: after a mismatch the callback re-runs the deep update and also
\* keeps polling
checkTailUpdatesNoElse(tm) ==
  /\ tm \in timers
  /\ cycles' = [cycles EXCEPT ![tm.cycle].attempts = @ + 1]
  /\ renderQueue' = IF getHotGeneration(generation) # tm.gen
                    THEN deepUpdate(tm.cycle) ELSE renderQueue
  /\ enqueueOrder' = IF getHotGeneration(generation) # tm.gen
                     THEN Append(enqueueOrder, tm.cycle) ELSE enqueueOrder
  /\ timers' = IF tm.runLimit + 1 < RunLimit
               THEN (timers \ {tm}) \cup {[tm EXCEPT !.runLimit = @ + 1]}
               ELSE timers \ {tm}
  /\ UNCHANGED <<regs, inst, instances, generation, requireQueue, settled,
                 aborted, lastRender, preGen, trackTailUpdates,
                 opened, misuseLog, status, exceptions, thrown, preInstances,
                 staleCalls>>

\* mutant: runLimit++ < 5
checkTailUpdatesPostIncrement(tm) ==
  /\ tm \in timers
  /\ cycles' = [cycles EXCEPT ![tm.cycle].attempts = @ + 1]
  /\ IF getHotGeneration(generation) # tm.gen
     THEN /\ renderQueue' = deepUpdate(tm.cycle)
          /\ enqueueOrder' = Append(enqueueOrder, tm.cycle)
          /\ timers' = timers \ {tm}
     ELSE IF tm.runLimit < RunLimit
     THEN /\ timers' = (timers \ {tm}) \cup {[tm EXCEPT !.runLimit = @ + 1]}
          /\ UNCHANGED <<renderQueue, enqueueOrder>>
     ELSE /\ timers' = timers \ {tm}
          /\ UNCHANGED <<renderQueue, enqueueOrder>>
  /\ UNCHANGED <<regs, inst, instances, generation, requireQueue, settled,
                 aborted, lastRender, preGen, trackTailUpdates,
                 opened, misuseLog, status, exceptions, thrown, preInstances,
                 staleCalls>>

\* the setTimeout callback of checkTailUpdates runs
checkTailUpdates(tm) ==
  /\ tm \in timers
  /\ cycles' = [cycles EXCEPT ![tm.cycle].attempts = @ + 1]
  /\ IF getHotGeneration(generation) # tm.gen
     THEN /\ renderQueue' = deepUpdate(tm.cycle)
          /\ enqueueOrder' = Append(enqueueOrder, tm.cycle)
          /\ timers' = timers \ {tm}
     ELSE IF tm.runLimit + 1 < RunLimit
     THEN /\ timers' = (timers \ {tm}) \cup {[tm EXCEPT !.runLimit = @ + 1]}
          /\ UNCHANGED <<renderQueue, enqueueOrder>>
     ELSE /\ timers' = timers \ {tm}
          /\ UNCHANGED <<renderQueue, enqueueOrder>>
  /\ UNCHANGED <<regs, inst, instances, generation, requireQueue, settled,
                 aborted, lastRender, preGen, trackTailUpdates,
                 opened, misuseLog, status, exceptions, thrown, preInstances,
                 staleCalls>>

\* --------------------------------------------------------- specifications
\* Registration and component lifecycle, from the state after construction.
Next ==
  \/ \E sourceModule \in WebpackModules : hot(sourceModule)
  \/ \E r \in 1 .. Len(regs) : FailbackTimerFires(r)
  \/ \E r \in 1 .. Len(regs) : ExportWrapper(r)
  \/ \E r \in 1 .. Len(regs) : componentDidMount(r)
  \/ \E i \in InstIds : componentWillUnmount(i)

Spec == Init /\ [][Next]_vars

\* The update protocol starts once modules "A" and "B" are registered and
\* their export-wrapping functions have run (a state Spec reaches).
Registered(id) ==
  [mod |-> id, timer |-> "cleared", firstHotRegistered |-> TRUE, again |-> FALSE,
   early |-> TRUE, reports |-> <<>>, registerCalls |-> 1,
   hmr |-> TRUE, ash |-> TRUE, accept |-> TRUE, statusHandler |-> TRUE,
   warnings |-> 0]

InitUpdate ==
  /\ regs = <<Registered("A"), Registered("B")>>
  /\ inst = [i \in InstIds |-> [mod |-> "none", mounted |-> FALSE, unmounts |-> "none"]]
  /\ instances = [m \in ModuleIds |-> <<>>]
  /\ generation = 0
  /\ requireQueue = <<>>
  /\ settled = {}
  /\ renderQueue = <<>>
  /\ timers = {}
  /\ cycles = <<>>
  /\ preGen = 0
  /\ aborted = FALSE
  /\ lastRender = <<>>
  /\ trackTailUpdates \in BOOLEAN
  /\ opened = {}
  /\ misuseLog = 0
  /\ status = "idle"
  /\ exceptions = FALSE
  /\ thrown = FALSE
  /\ preInstances = <<>>
  /\ enqueueOrder = <<>>
  /\ staleCalls = {}

\* no forceUpdate call unmounts an instance
NoSync == [v \in InstIds |-> 0]

\* whether a call with this argument is one more update trigger
Triggers(e) == IF isGenuineError(e) THEN 0 ELSE 1

\* One update at a time among components that mount and unmount.
NextUpdate ==
  \/ \E r \in 1 .. Len(regs), e \in PossibleErrors :
       Len(cycles) + Triggers(e) <= MaxUpdates /\ updateInstances(r, e)
  \/ RunRequireTask(FALSE)
  \/ \E t \in settled : ThenDeepUpdate(t)
  \/ RunRenderTask(NoSync)
  \/ \E tm \in timers : TotalAttempts < MaxTailRuns /\ checkTailUpdates(tm)
  \/ \E r \in 1 .. Len(regs) : componentDidMount(r)
  \/ \E i \in InstIds : inst[i].mounted /\ componentWillUnmount(i)

UpdateSpec == InitUpdate /\ [][NextUpdate]_vars

\* The reload/render pairing with a re-require that may throw, under the
\* scheduling the event loop gives: a queued task and a settled promise's
\* callback always get to run.
NextReload ==
  \/ \E r \in 1 .. Len(regs), e \in NoErrors :
       Len(cycles) < MaxTriggers /\ updateInstances(r, e)
  \/ \E threw \in BOOLEAN : RunRequireTask(threw)
  \/ \E t \in settled : ThenDeepUpdate(t)
  \/ RunRenderTask(NoSync)
  \/ \E tm \in timers : TotalAttempts < MaxTailRuns /\ checkTailUpdates(tm)

LiveSpec ==
  /\ InitUpdate
  /\ [][NextReload]_vars
  /\ WF_vars(\E threw \in BOOLEAN : RunRequireTask(threw))
  /\ WF_vars(\E t \in settled : ThenDeepUpdate(t))
  /\ WF_vars(RunRenderTask(NoSync))

\* Overlapping update cycles and their tail-update polling.
NextTail ==
  \/ \E r \in 1 .. Len(regs), e \in NoErrors :
       Len(cycles) < MaxTriggers /\ updateInstances(r, e)
  \/ RunRequireTask(FALSE)
  \/ \E t \in settled : ThenDeepUpdate(t)
  \/ RunRenderTask(NoSync)
  \/ \E tm \in timers : TotalAttempts < MaxPolls /\ checkTailUpdates(tm)

TailSpec == InitUpdate /\ [][NextTail]_vars

\* Deep updates of components that mount and unmount, also synchronously
\* during a forceUpdate call.
NextRender ==
  \/ \E r \in 1 .. Len(regs), e \in NoErrors :
       Len(cycles) < MaxUpdates /\ updateInstances(r, e)
  \/ RunRequireTask(FALSE)
  \/ \E t \in settled : ThenDeepUpdate(t)
  \/ \E by \in [InstIds -> InstIds \cup {0}] : RunRenderTask(by)
  \/ \E r \in 1 .. Len(regs) : componentDidMount(r)
  \/ \E i \in InstIds : inst[i].mounted /\ componentWillUnmount(i)

RenderSpec == InitUpdate /\ [][NextRender]_vars

\* Unmounts while the host has modules open.
NextUnmount ==
  \/ \E r \in 1 .. Len(regs) : componentDidMount(r)
  \/ \E i \in InstIds : inst[i].unmounts # "again" /\ componentWillUnmount(i)
  \/ \E m \in ModuleIds : EnterModule(m)
  \/ \E m \in ModuleIds : LeaveModule(m)

UnmountSpec == InitUpdate /\ [][NextUnmount]_vars

\* Registration against every kind of host, and the host's status sequence.
HostModules == WebpackModules \cup ParcelModules \cup NoHmrModules \cup InvalidModules

NextHost ==
  \/ \E sourceModule \in HostModules : hot(sourceModule)
  \/ \E r \in 1 .. Len(regs) : FailbackTimerFires(r)
  \/ \E st \in Statuses :
       Len(cycles) + Len(StatusRuns(st)) <= MaxTriggers /\ StatusChange(st)

HostSpec == Init /\ [][NextHost]_vars

\* Registrations with and without module.hot, their components and the
\* updates the accept handler starts.
NextPlain ==
  \/ \E sourceModule \in WebpackModules \cup NoHmrModules : hot(sourceModule)
  \/ \E r \in 1 .. Len(regs) : ~regs[r].firstHotRegistered /\ ExportWrapper(r)
  \/ \E r \in 1 .. Len(regs) : componentDidMount(r)
  \/ \E i \in InstIds : inst[i].mounted /\ componentWillUnmount(i)
  \/ \E r \in 1 .. Len(regs), e \in NoErrors :
       regs[r].accept /\ Len(cycles) < MaxUpdates /\ updateInstances(r, e)

PlainSpec == Init /\ [][NextPlain]_vars

\* ------------------------------------------------------------------ claims
CycleIds == 1 .. Len(cycles)

\* instances React has mounted for module m and not unmounted since
Live(m) == {i \in InstIds : inst[i].mounted /\ inst[i].mod = m}

\* the instances recorded for module m
Recorded(m) == {instances[m][k] : k \in 1 .. Len(instances[m])}

\* what of cycle t is still waiting to run
Pending(t) ==
  Count(requireQueue, t) + Count(renderQueue, t)
    + (IF t \in settled THEN 1 ELSE 0)
    + Cardinality({tm \in timers : tm.cycle = t})

\* a step in which a deep-update task ran
RenderStep == Len(renderQueue') < Len(renderQueue)

\* C1: a call of updateInstances with a genuine error object adds no task to
\* the reload queue or the render queue, starts no cycle and no poll, forces
\* no re-render and leaves the Generation counter as it was.
C1_ErrorAborts ==
  [][aborted' # aborted =>
       UNCHANGED <<requireQueue, settled, renderQueue, timers, cycles,
                   generation, lastRender, instances>>]_vars

\* an error call was made while an instance was recorded and nothing ran
C1_Witness ==
  /\ aborted
  /\ instances["A"] # <<>>
  /\ cycles = <<>>
  /\ generation = 0

\* C2: the deep-update task of a trigger calls forceUpdate exactly once on
\* every instance mounted for its module and on no other instance; with a
\* single trigger (so no reconciliation mismatch) the Generation counter
\* after the cycle is its pre-trigger value plus 1.
C2_OneForcePerInstance ==
  [][/\ RenderStep =>
          \A i \in InstIds :
            Count(lastRender', i) =
              IF i \in Live(cycles[Head(renderQueue)].mod) THEN 1 ELSE 0
     /\ (Len(cycles') = 1 /\ cycles'[1].rendered) =>
          generation' = preGen' + 1]_vars

\* two instances of the module of the only trigger were force-re-rendered
C2_Witness ==
  /\ Len(cycles) = 1
  /\ cycles[1].rendered
  /\ Len(lastRender) = 2
  /\ generation = preGen + 1

\* C3: with trackTailUpdates enabled every update cycle stops polling after
\* at most 5 poll attempts, even if the Generation counter keeps changing.
C3_PollingStopsAfterFive ==
  \A t \in CycleIds : cycles[t].attempts <= RunLimit

C5_OneReportNamingModule ==
  \A r \in 1 .. Len(regs) :
    /\ Len(regs[r].reports) = IF regs[r].timer = "fired" THEN 1 ELSE 0
    /\ \A k \in 1 .. Len(regs[r].reports) : regs[r].reports[k].id = regs[r].mod

\* the timer of a never-invoked registration fired after another module
\* had been registered as well
C5_Witness ==
  \E r, q \in 1 .. Len(regs) :
    /\ regs[r].timer = "fired"
    /\ ~regs[r].firstHotRegistered
    /\ r < q
    /\ regs[q].mod # regs[r].mod

\* C6: a registration whose export-wrapping function ran before the timer
\* fired never produces a report, and no registration produces more than
\* one, however often and whenever its function is invoked.
C6_WrapperCancelsTimer ==
  \A r \in 1 .. Len(regs) :
    /\ regs[r].early => regs[r].reports = <<>>
    /\ Len(regs[r].reports) <= 1

\* one function ran twice before its timer could fire, another ran twice
\* after its timer had fired
C6_Witness ==
  \E r1, r2 \in 1 .. Len(regs) :
    /\ regs[r1].early /\ regs[r1].again
    /\ regs[r2].timer = "fired" /\ regs[r2].again

\* C7: after every mount and unmount the instances recorded for a module are
\* exactly those mounted and not since unmounted, each recorded once, and an
\* unmount of an instance that is not recorded leaves the registry as it was.
C7_RegistryIsLiveSet ==
  [][/\ \A m \in ModuleIds :
          /\ Recorded(m)' = Live(m)'
          /\ Len(instances'[m]) = Cardinality(Live(m)')
     /\ \A i \in InstIds :
          (inst[i].unmounts = "once" /\ inst'[i].unmounts = "again")
            => instances' = instances]_vars

\* an instance was unmounted twice while a sibling stayed mounted
C7_Witness ==
  \E i, j \in InstIds :
    /\ inst[i].unmounts = "again"
    /\ inst[j].mounted
    /\ inst[j].mod = inst[i].mod

\* C8: a cycle's deep-update task is queued, run or polled for only after
\* the cycle's reload task has settled.
C8_RenderAfterReload ==
  \A t \in CycleIds :
    (Count(renderQueue, t) > 0 \/ cycles[t].rendered \/ \E tm \in timers : tm.cycle = t)
      => (cycles[t].required # "pending" /\ Count(requireQueue, t) = 0)

\* a first trigger has rendered while a second trigger for the same module
\* still waits for its reload
C8_Witness ==
  /\ Len(cycles) = 2
  /\ cycles[1].mod = cycles[2].mod
  /\ cycles[1].rendered
  /\ cycles[2].required = "pending"

\* C9: every update trigger without error eventually runs its deep update,
\* whether its re-require succeeded or threw.
C9_RenderDespiteThrow ==
  \A t \in 1 .. MaxTriggers :
    (Len(cycles) >= t) ~> (Len(cycles) >= t /\ cycles[t].rendered)

\* the deep update of a cycle whose re-require threw has run
C9_Witness ==
  \E t \in CycleIds :
    /\ cycles[t].required = "threw"
    /\ cycles[t].rendered

C11_UnmountLogsMisuseOnce ==
  [][\A i \in InstIds :
       (inst[i].mod # "none" /\ inst'[i].unmounts # inst[i].unmounts) =>
         /\ misuseLog' = misuseLog + (IF inst[i].mod \in opened THEN 1 ELSE 0)
         /\ Count(instances'[inst[i].mod], i) = 0]_vars

\* two instances were unmounted, one of them while its module was open
C11_Witness ==
  /\ misuseLog = 1
  /\ \E i, j \in InstIds : i # j /\ inst[i].unmounts = "once" /\ inst[j].unmounts = "once"
  /\ \A m \in ModuleIds : instances[m] = <<>>

\* C12: when the host's status becomes "apply", every registration with a
\* status handler clears the pending exceptions and starts one update cycle
\* whose reload task is queued, without an error abort; when the status
\* becomes anything else, no cycle starts and the exceptions stay.
C12_ApplyStartsUpdate ==
  [][status' # status =>
       IF status' = "apply"
       THEN LET hs == {r \in 1 .. Len(regs) : regs[r].statusHandler}
            IN /\ Len(cycles') = Len(cycles) + Cardinality(hs)
               /\ \A r \in hs :
                    \E t \in Len(cycles) + 1 .. Len(cycles') :
                      /\ cycles'[t].reg = r
                      /\ cycles'[t].required = "pending"
                      /\ Count(requireQueue', t) = 1
               /\ hs # {} => ~exceptions'
               /\ aborted' = aborted
       ELSE UNCHANGED <<cycles, requireQueue, exceptions>>]_vars

\* the deadline timer of the only registration reported an exception, and
\* an "apply" cleared it and started a cycle
C12_Witness ==
  /\ Len(regs) = 1
  /\ regs[1].timer = "fired"
  /\ status = "apply"
  /\ ~exceptions
  /\ Len(cycles) = 1

\* C13: a hot() call that throws changes nothing else: no registration, no
\* handler, no deadline timer, no module record; and no registration ever
\* exists without a module id.
C13_InvalidHotThrows ==
  [][/\ thrown' # thrown =>
          UNCHANGED <<regs, inst, instances, generation, requireQueue, settled,
                      renderQueue, timers, cycles, preGen, aborted, lastRender,
                      trackTailUpdates, opened, misuseLog, status, exceptions,
                      preInstances, enqueueOrder, staleCalls>>
     /\ \A r \in 1 .. Len(regs') : regs'[r].mod \in ModuleIds]_vars

\* a call threw while an exception was pending and a registration existed
C13_Witness ==
  /\ thrown
  /\ exceptions
  /\ Len(regs) = 1

\* C14: a registration of a module without module.hot has logged exactly
\* one warning, has no accept handler and no status handler, and no update
\* cycle is ever started for it; the instances of its components are
\* recorded while mounted like any others.
C14_NoHmrPassThrough ==
  /\ \A r \in 1 .. Len(regs) :
       /\ regs[r].warnings = IF regs[r].hmr THEN 0 ELSE 1
       /\ ~regs[r].hmr =>
            /\ ~regs[r].accept
            /\ ~regs[r].statusHandler
            /\ \A t \in CycleIds : cycles[t].reg # r
  /\ \A m \in ModuleIds :
       /\ Recorded(m) = Live(m)
       /\ Len(instances[m]) = Cardinality(Live(m))

\* the only registration has no module.hot; one of its instances is mounted
\* and recorded, another was unmounted
C14_Witness ==
  /\ Len(regs) = 1
  /\ ~regs[1].hmr
  /\ \E i, j \in InstIds :
       /\ inst[i].mounted
       /\ instances[regs[1].mod] = <<i>>
       /\ inst[j].unmounts = "once"

\* C15: the deep-update task that runs is always the one that was handed to
\* the render queue first among those that wait, and it runs as a whole: it
\* leaves the waiting ones in their order, and its poll (if tracking is on)
\* is the one armed by the step.
C15_RenderTasksInEnqueueOrder ==
  [][RenderStep =>
       /\ enqueueOrder # <<>>
       /\ enqueueOrder' = Tail(enqueueOrder)
       /\ renderQueue' = enqueueOrder'
       /\ cycles'[Head(enqueueOrder)].rendered
       /\ trackTailUpdates =>
            \E tm \in timers' : tm.cycle = Head(enqueueOrder) /\ tm.gen = generation'
                                /\ tm.runLimit = 0]_vars

\* the first of two cycles has run and polls while the task of the second
\* waits
C15_Witness ==
  /\ Len(cycles) = 2
  /\ cycles[1].rendered
  /\ ~cycles[2].rendered
  /\ enqueueOrder = <<2>>
  /\ generation = 1
  /\ \E tm \in timers : tm.cycle = 1

\* C16: with tracking on, a cycle that is the only one (so the Generation
\* counter stays at the value its task captured) polls exactly 5 times and
\* then has no timer left, queues no further task and leaves the counter at
\* the captured value; no poll ever starts a sixth attempt of its chain; with
\* tracking off no poll is ever armed or run.
C16_FivePollsThenStop ==
  /\ ~trackTailUpdates =>
       /\ timers = {}
       /\ \A t \in CycleIds : cycles[t].attempts = 0
  /\ \A tm \in timers : tm.runLimit < RunLimit
  /\ (trackTailUpdates /\ Len(cycles) = 1 /\ cycles[1].rendered) =>
       /\ generation = 1
       /\ renderQueue = <<>>
       /\ cycles[1].attempts <= 5
       /\ (timers = {}) <=> (cycles[1].attempts = 5)
       /\ \A tm \in timers : tm.runLimit = cycles[1].attempts /\ tm.gen = generation

\* the only cycle has made its five polls and stopped
C16_Witness ==
  /\ trackTailUpdates
  /\ Len(cycles) = 1
  /\ cycles[1].attempts = 5
  /\ timers = {}
  /\ renderQueue = <<>>
  /\ generation = 1

\* C17: a deep-update task calls forceUpdate on the instances recorded for
\* its module when the task runs, in their order, whatever was recorded
\* when the update was triggered.
C17_RendersRegistryAtExecution ==
  [][RenderStep => lastRender' = instances[cycles[Head(renderQueue)].mod]]_vars

\* the task forced an instance mounted after the trigger and did not force
\* one that was recorded at the trigger and unmounted before the task ran
C17_Witness ==
  /\ Len(cycles) = 1
  /\ cycles[1].rendered
  /\ \E i \in InstIds : Count(lastRender, i) = 1 /\ Count(preInstances, i) = 0
  /\ \E j \in InstIds : Count(preInstances, j) = 1 /\ Count(lastRender, j) = 0

\* C18: no deep-update task calls forceUpdate on an instance that had
\* unmounted before the call.
C18_NoForceUpdateAfterUnmount == staleCalls = {}

\* C19: hot() adds a status handler exactly when the module has
\* addStatusHandler and the host's status is "idle" at the call, a
\* registration never gets one later, and a change of the status to "apply"
\* starts one cycle for each registration with a handler and none for any
\* other.
C19_StatusHandlerOnlyWhenIdle ==
  [][/\ Len(regs') > Len(regs) =>
          LET new == regs'[Len(regs')]
          IN new.statusHandler <=> (new.hmr /\ new.ash /\ status = "idle")
     /\ \A r \in 1 .. Len(regs) : regs'[r].statusHandler = regs[r].statusHandler
     /\ (status # "apply" /\ status' = "apply") =>
          \A r \in 1 .. Len(regs) :
            Cardinality({t \in Len(cycles) + 1 .. Len(cycles') : cycles'[t].reg = r})
              = IF regs[r].statusHandler THEN 1 ELSE 0]_vars

\* a module registered when idle was registered again during an update;
\* the second registration got no handler and each of two "apply"
\* transitions started one cycle
C19_Witness ==
  /\ Len(regs) = 2
  /\ regs[1].mod = regs[2].mod
  /\ regs[1].statusHandler
  /\ regs[2].hmr /\ regs[2].ash /\ ~regs[2].statusHandler
  /\ status = "apply"
  /\ Len(cycles) = 2
  /\ cycles[1].reg = 1
  /\ cycles[2].reg = 1

\* C20: reactHotLoader.register has been called once for a registration
\* whose export-wrapping function has run, however often it ran, and not at
\* all for one whose function has not run.
C20_RegisterOnce ==
  \A r \in 1 .. Len(regs) :
    regs[r].registerCalls = IF regs[r].firstHotRegistered THEN 1 ELSE 0

\* a function ran more than once, registered once, and a component it
\* returned is mounted in the registration's module
C20_Witness ==
  \E r \in 1 .. Len(regs) :
    /\ regs[r].again
    /\ regs[r].registerCalls = 1
    /\ \E i \in InstIds : inst[i].mounted /\ inst[i].mod = regs[r].mod

====
